---- MODULE Spec2Model ----
(***************************************************************************)
(* A model of the UNO rules/effect engine: Card (legality and effect       *)
(* derivation), CardEffect (the effect state machine) and Deck (the        *)
(* draw/peek supply, its standard composition and shuffle), translated     *)
(* from src/uno/engine/card.py and src/uno/engine/deck.py; Player and      *)
(* PlayerAction from src/uno/player/player.py; and the decisions of the    *)
(* three bots of src/uno/bots.                                             *)
(*                                                                         *)
(* The components share no state, so each is explored under its own        *)
(* specification (SpecCard, SpecEffect, SpecDeck, SpecPlayer, SpecAction,  *)
(* SpecBot); SpecGame moves cards between a fresh deck, two hands and a    *)
(* discard pile; SpecStack stacks draw effects on one CardEffect, applies  *)
(* and executes them; Spec is the interleaving of all of them.             *)
(***************************************************************************)
EXTENDS Integers, Sequences, FiniteSets, TLC

VARIABLES
    card_call,   \* the Card method invoked and its arguments
    card_ret,    \* what that call returned or raised
    eff,         \* the CardEffect object the methods are called on (self)
    eff_pre,     \* eff as it was when the last operation was called
    eff_call,    \* the last CardEffect operation and its arguments
    eff_ret,     \* what that operation returned or raised
    deck,        \* Deck._cards, head (next draw) first
    deck_pre,    \* deck as it was when the last operation was called
    deck_call,   \* the last Deck operation and its arguments
    deck_ret,    \* what that operation returned or raised
    players,     \* the Player objects: hand, has_said_uno, score
    player_pre,  \* the player called as it was when the last operation was called
    player_call, \* the last Player operation, its receiver and its arguments
    player_ret,  \* what that operation returned or raised
    discard,     \* the discard pile, kept by the match loop
    steps,       \* the number of operations of the match so far
    act_call,    \* the PlayerAction is_valid is asked about
    act_ret,     \* is_valid's answer
    bot_call,    \* the bot asked for an action: its class, hand and game state
    bot_ret,     \* the action it returned and the bot afterwards
    stack_sum,   \* the draw counts combined into eff since it was fresh, summed
    stack_phase  \* how far the stacking of draws on eff has come

card_vars == <<card_call, card_ret>>
eff_vars == <<eff, eff_pre, eff_call, eff_ret>>
deck_vars == <<deck, deck_pre, deck_call, deck_ret>>
player_vars == <<players, player_pre, player_call, player_ret>>
game_vars == <<discard, steps>>
act_vars == <<act_call, act_ret>>
bot_vars == <<bot_call, bot_ret>>
stack_vars == <<stack_sum, stack_phase>>
vars == <<card_call, card_ret, eff, eff_pre, eff_call, eff_ret,
          deck, deck_pre, deck_call, deck_ret,
          players, player_pre, player_call, player_ret,
          discard, steps, act_call, act_ret, bot_call, bot_ret,
          stack_sum, stack_phase>>

\* The state of the player side: players, match, actions and bots.
player_side == <<player_vars, game_vars, act_vars, bot_vars>>

----------------------------------------------------------------------------
(* Bounds of the model.                                                    *)

\* Largest draw_count / skip_count an effect holds.
MaxCount == 4

\* Largest number of cards in the deck.
MaxDeck == 4

\* Depth of nested calls after which the interpreter raises RecursionError.
RecursionLimit == 6

----------------------------------------------------------------------------
(* Python values.                                                          *)

\* Python's None.
None == "None"

\* CardColor, an IntEnum: the member names and their integer values.
CardColor == {"RED", "BLUE", "GREEN", "YELLOW", "WILD"}

ColorValue ==
    [c \in CardColor |->
        CASE c = "RED" -> 0
          [] c = "BLUE" -> 1
          [] c = "GREEN" -> 2
          [] c = "YELLOW" -> 3
          [] c = "WILD" -> 4]

\* CardLabel, an IntEnum.
CardLabel ==
    {"ZERO", "ONE", "TWO", "THREE", "FOUR", "FIVE", "SIX", "SEVEN", "EIGHT",
     "NINE", "SKIP", "REVERSE", "DRAW_TWO", "WILD", "WILD_DRAW_FOUR"}

LabelValue ==
    [l \in CardLabel |->
        CASE l = "ZERO" -> 0
          [] l = "ONE" -> 1
          [] l = "TWO" -> 2
          [] l = "THREE" -> 3
          [] l = "FOUR" -> 4
          [] l = "FIVE" -> 5
          [] l = "SIX" -> 6
          [] l = "SEVEN" -> 7
          [] l = "EIGHT" -> 8
          [] l = "NINE" -> 9
          [] l = "SKIP" -> 10
          [] l = "REVERSE" -> 11
          [] l = "DRAW_TWO" -> 12
          [] l = "WILD" -> 13
          [] l = "WILD_DRAW_FOUR" -> 14]

\* Optional[CardColor]
OptColor == CardColor \cup {None}

\* The four concrete colors.
ConcreteColors == {"RED", "BLUE", "GREEN", "YELLOW"}

\* bool(x) of an Optional[CardColor]: None is falsy, and an IntEnum member is
\* falsy exactly when its integer value is 0.
ColorTruthy(c) == c # None /\ ColorValue[c] # 0

\* `a or b` on Optional[CardColor] operands: a when a is truthy, else b.
ColorOr(a, b) == IF ColorTruthy(a) THEN a ELSE b

----------------------------------------------------------------------------
(* Card                                                                    *)

ACTION_CARDS == {"SKIP", "REVERSE", "DRAW_TWO"}
WILD_CARDS == {"WILD", "WILD_DRAW_FOUR"}

is_number_label(label) == LabelValue[label] <= 9
is_action_label(label) == label \in ACTION_CARDS
is_wild_label(label) == label \in WILD_CARDS

\* Card._validate_card: TRUE when construction raises no ValueError.
validate_card(color, label) ==
    /\ ~(label \in WILD_CARDS /\ color # "WILD")
    /\ ~(label \notin WILD_CARDS /\ color = "WILD")
    /\ (is_number_label(label) \/ is_action_label(label) \/ is_wild_label(label))

\* Every Card object that can be constructed.
Cards ==
    {c \in [color : CardColor, label : CardLabel] : validate_card(c.color, c.label)}

is_wild(card) == card.label \in WILD_CARDS

\* Card.can_play_on(self, other, current_color)
can_play_on(self, other, current_color) ==
    IF is_wild(self) THEN TRUE
    ELSE IF self.color = ColorOr(current_color, other.color) THEN TRUE
    ELSE IF self.label = other.label /\ ~is_wild(other) THEN TRUE
    ELSE FALSE

\* The effects dict Card.play starts from.
NoEffects ==
    [color_change |-> None, draw_cards |-> 0, skip_turn |-> FALSE, reverse |-> FALSE]

\* Card.play(self, new_color): the dict returned, or raised = TRUE for the
\* ValueError.
play(self, new_color) ==
    LET wild_branch == is_wild(self) /\ ColorTruthy(new_color)
        e1 == IF wild_branch
              THEN [NoEffects EXCEPT !.color_change = new_color]
              ELSE NoEffects
        e2 == IF self.label = "DRAW_TWO" THEN [e1 EXCEPT !.draw_cards = 2]
              ELSE IF self.label = "WILD_DRAW_FOUR" THEN [e1 EXCEPT !.draw_cards = 4]
              ELSE IF self.label = "SKIP" THEN [e1 EXCEPT !.skip_turn = TRUE]
              ELSE IF self.label = "REVERSE" THEN [e1 EXCEPT !.reverse = TRUE]
              ELSE e1
    IN  IF wild_branch /\ new_color = "WILD"
        THEN [raised |-> TRUE, effects |-> NoEffects]
        ELSE [raised |-> FALSE, effects |-> e2]

\* A call's result: `raised` for an exception, `bool` for can_play_on's answer,
\* `effects` for play's dict.
NoCardRet == [raised |-> FALSE, bool |-> FALSE, effects |-> NoEffects]

\* The inputs of a Card call, before the call is made.
CardInputs ==
    [op : {"input"}, self : Cards, other : Cards, color : OptColor]

CanPlayOnCall ==
    /\ card_call.op = "input"
    /\ card_call' = [card_call EXCEPT !.op = "can_play_on"]
    /\ card_ret' = [NoCardRet EXCEPT
                      !.bool = can_play_on(card_call.self, card_call.other,
                                           card_call.color)]
    /\ UNCHANGED <<eff_vars, deck_vars, player_side, stack_vars>>

PlayCall ==
    /\ card_call.op = "input"
    /\ card_call' = [card_call EXCEPT !.op = "play"]
    /\ LET r == play(card_call.self, card_call.color)
       IN  card_ret' = [NoCardRet EXCEPT !.raised = r.raised, !.effects = r.effects]
    /\ UNCHANGED <<eff_vars, deck_vars, player_side, stack_vars>>

NextCard == CanPlayOnCall \/ PlayCall

----------------------------------------------------------------------------
(* CardEffect                                                              *)

\* EffectState, an IntEnum.
EffectState == {"NO_EFFECT", "PENDING", "APPLIED", "RESOLVED"}

StateValue ==
    [s \in EffectState |->
        CASE s = "NO_EFFECT" -> 0
          [] s = "PENDING" -> 1
          [] s = "APPLIED" -> 2
          [] s = "RESOLVED" -> 3]

\* CardEffect.__init__
NewEffect ==
    [state |-> "NO_EFFECT", color_change |-> None, draw_count |-> 0,
     skip_count |-> 0, reverse_direction |-> FALSE, stackable |-> FALSE]

\* The result of a CardEffect method: the object afterwards, whether the
\* method raised, and the value it returned (0 for the methods returning None).
Returned(e, v) == [eff |-> e, raised |-> FALSE, error |-> None, value |-> v]
Raised(e, err) == [eff |-> e, raised |-> TRUE, error |-> err, value |-> 0]

\* set_pending without its guard.
set_pending_unguarded(e) == [e EXCEPT !.state = "PENDING"]

set_pending(e) ==
    IF e.state = "NO_EFFECT" THEN [e EXCEPT !.state = "PENDING"] ELSE e

\* set_applied without its guard.
set_applied_unguarded(e) == [e EXCEPT !.state = "APPLIED"]

set_applied(e) ==
    IF e.state = "PENDING" THEN [e EXCEPT !.state = "APPLIED"] ELSE e

set_resolved(e) ==
    IF e.state = "APPLIED" THEN [e EXCEPT !.state = "RESOLVED"] ELSE e

\* is_applied that also accepts a RESOLVED effect.
is_applied_or_resolved(e) == e.state \in {"APPLIED", "RESOLVED"}

is_applied(e) == e.state = "APPLIED"

\* reset_state calls clear_effects, which calls reset_state: neither has a
\* base case.  `depth` is the number of frames on the interpreter's stack; a
\* call that would exceed RecursionLimit raises RecursionError, which no frame
\* catches.
RECURSIVE reset_state(_, _), clear_effects(_, _)

reset_state(e, depth) ==
    IF depth > RecursionLimit
    THEN Raised(e, "RecursionError")
    ELSE clear_effects([e EXCEPT !.state = "NO_EFFECT"], depth + 1)

clear_effects(e, depth) ==
    IF depth > RecursionLimit
    THEN Raised(e, "RecursionError")
    ELSE reset_state([e EXCEPT !.color_change = None,
                               !.draw_count = 0,
                               !.skip_count = 0,
                               !.reverse_direction = FALSE,
                               !.stackable = FALSE], depth + 1)

\* The property setters.  The isinstance checks are the argument's type and
\* are met by every value drawn here.
color_change_setter(e, color) ==
    IF color # None
    THEN IF color = "WILD"
         THEN Raised(e, "ValueError")
         ELSE Returned([set_pending(e) EXCEPT !.color_change = color], 0)
    ELSE Returned([e EXCEPT !.color_change = color], 0)

\* The draw_count setter with `count >= 0` for `count > 0`.
draw_count_setter_eager(e, count) ==
    IF count < 0
    THEN Raised(e, "ValueError")
    ELSE Returned([set_pending(e) EXCEPT !.draw_count = count], 0)

draw_count_setter(e, count) ==
    IF count < 0
    THEN Raised(e, "ValueError")
    ELSE Returned([(IF count > 0 THEN set_pending(e) ELSE e)
                       EXCEPT !.draw_count = count], 0)

\* The skip_count setter that assigns before it checks the count.
skip_count_setter_assigning_first(e, count) ==
    IF count < 0
    THEN Raised([e EXCEPT !.skip_count = count], "ValueError")
    ELSE Returned([(IF count > 0 THEN set_pending(e) ELSE e)
                       EXCEPT !.skip_count = count], 0)

skip_count_setter(e, count) ==
    IF count < 0
    THEN Raised(e, "ValueError")
    ELSE Returned([(IF count > 0 THEN set_pending(e) ELSE e)
                       EXCEPT !.skip_count = count], 0)

reverse_direction_setter(e, reverse) ==
    Returned([(IF reverse THEN set_pending(e) ELSE e)
                  EXCEPT !.reverse_direction = reverse], 0)

stackable_setter(e, stackable) ==
    Returned([e EXCEPT !.stackable = stackable], 0)

\* combine with `self.draw_count = other.draw_count` for `+=`.
combine_overwriting(e, other) ==
    LET e1 == IF other.state # "NO_EFFECT" THEN set_pending(e) ELSE e
        r2 == IF other.color_change # None
              THEN color_change_setter(e1, other.color_change)
              ELSE Returned(e1, 0)
        r3 == draw_count_setter(r2.eff, other.draw_count)
        r4 == skip_count_setter(r3.eff, r3.eff.skip_count + other.skip_count)
        r5 == IF other.reverse_direction
              THEN reverse_direction_setter(r4.eff, TRUE)
              ELSE r4
        r6 == IF other.stackable THEN stackable_setter(r5.eff, TRUE) ELSE r5
    IN  IF r2.raised THEN r2
        ELSE IF r3.raised THEN r3
        ELSE IF r4.raised THEN r4
        ELSE r6

\* CardEffect.combine(self, other), statement by statement.  A setter that
\* raises ends the method with self as the earlier statements left it.
combine(e, other) ==
    LET e1 == IF other.state # "NO_EFFECT" THEN set_pending(e) ELSE e
        r2 == IF other.color_change # None
              THEN color_change_setter(e1, other.color_change)
              ELSE Returned(e1, 0)
        r3 == draw_count_setter(r2.eff, r2.eff.draw_count + other.draw_count)
        r4 == skip_count_setter(r3.eff, r3.eff.skip_count + other.skip_count)
        r5 == IF other.reverse_direction
              THEN reverse_direction_setter(r4.eff, TRUE)
              ELSE r4
        r6 == IF other.stackable THEN stackable_setter(r5.eff, TRUE) ELSE r5
    IN  IF r2.raised THEN r2
        ELSE IF r3.raised THEN r3
        ELSE IF r4.raised THEN r4
        ELSE r6

\* execute_draw that pays out whatever the state is.
execute_draw_any_state(e) ==
    IF e.draw_count > 0
    THEN Returned([e EXCEPT !.draw_count = 0], e.draw_count)
    ELSE Returned(e, 0)

\* execute_draw that pays out without zeroing the count.
execute_draw_keeping(e) ==
    IF is_applied(e) /\ e.draw_count > 0
    THEN Returned(e, e.draw_count)
    ELSE Returned(e, 0)

execute_draw(e) ==
    IF is_applied(e) /\ e.draw_count > 0
    THEN Returned([e EXCEPT !.draw_count = 0], e.draw_count)
    ELSE Returned(e, 0)

execute_skip(e) ==
    IF is_applied(e) /\ e.skip_count > 0
    THEN Returned([e EXCEPT !.skip_count = 0], e.skip_count)
    ELSE Returned(e, 0)

\* The CardEffect objects a program can hold, as arguments for combine: the
\* fields are set only through the setters above, so a non-None color, a
\* positive count or a true reverse flag has moved the state off NO_EFFECT,
\* and WILD or a negative count was rejected.
EffectObjects ==
    {e \in [state : EffectState,
            color_change : OptColor \ {"WILD"},
            draw_count : 0..MaxCount,
            skip_count : 0..MaxCount,
            reverse_direction : BOOLEAN,
            stackable : BOOLEAN] :
        e.state = "NO_EFFECT" =>
            /\ e.color_change = None
            /\ e.draw_count = 0
            /\ e.skip_count = 0
            /\ ~e.reverse_direction}

\* Before any call there is no result.
NoEffRet == [raised |-> FALSE, error |-> None, value |-> 0]

\* The arguments a call did not take keep these values.
NoEffCall ==
    [op |-> "init", color |-> None, count |-> 0, flag |-> FALSE, other |-> NewEffect]

\* The previous call has been returned from.
EffIdle == eff_call.op = "init"

\* One CardEffect method call on eff: r is its result.
EffStep(call, r) ==
    /\ eff_pre' = eff
    /\ eff_call' = call
    /\ eff' = r.eff
    /\ eff_ret' = [raised |-> r.raised, error |-> r.error, value |-> r.value]
    /\ UNCHANGED <<card_vars, deck_vars, player_side, stack_vars>>

SetPending ==
    /\ EffIdle
    /\ EffStep([NoEffCall EXCEPT !.op = "set_pending"], Returned(set_pending(eff), 0))

SetApplied ==
    /\ EffIdle
    /\ EffStep([NoEffCall EXCEPT !.op = "set_applied"], Returned(set_applied(eff), 0))

SetResolved ==
    /\ EffIdle
    /\ EffStep([NoEffCall EXCEPT !.op = "set_resolved"], Returned(set_resolved(eff), 0))

ResetState ==
    /\ EffIdle
    /\ EffStep([NoEffCall EXCEPT !.op = "reset_state"], reset_state(eff, 1))

ClearEffects ==
    /\ EffIdle
    /\ EffStep([NoEffCall EXCEPT !.op = "clear_effects"], clear_effects(eff, 1))

SetColorChange ==
    /\ EffIdle
    /\ \E color \in OptColor :
        EffStep([NoEffCall EXCEPT !.op = "color_change", !.color = color],
                color_change_setter(eff, color))

SetDrawCount ==
    /\ EffIdle
    /\ \E count \in -1..MaxCount :
        EffStep([NoEffCall EXCEPT !.op = "draw_count", !.count = count],
                draw_count_setter(eff, count))

SetSkipCount ==
    /\ EffIdle
    /\ \E count \in -1..MaxCount :
        EffStep([NoEffCall EXCEPT !.op = "skip_count", !.count = count],
                skip_count_setter(eff, count))

SetReverseDirection ==
    /\ EffIdle
    /\ \E flag \in BOOLEAN :
        EffStep([NoEffCall EXCEPT !.op = "reverse_direction", !.flag = flag],
                reverse_direction_setter(eff, flag))

SetStackable ==
    /\ EffIdle
    /\ \E flag \in BOOLEAN :
        EffStep([NoEffCall EXCEPT !.op = "stackable", !.flag = flag],
                stackable_setter(eff, flag))

Combine ==
    /\ EffIdle
    /\ \E other \in EffectObjects :
        /\ eff.draw_count + other.draw_count <= MaxCount
        /\ eff.skip_count + other.skip_count <= MaxCount
        /\ EffStep([NoEffCall EXCEPT !.op = "combine", !.other = other],
                   combine(eff, other))

ExecuteDraw ==
    /\ EffIdle
    /\ EffStep([NoEffCall EXCEPT !.op = "execute_draw"], execute_draw(eff))

ExecuteSkip ==
    /\ EffIdle
    /\ EffStep([NoEffCall EXCEPT !.op = "execute_skip"], execute_skip(eff))

\* The caller takes the result and goes on: the record of the call is dropped,
\* the object stays as the call left it.
EffReturn ==
    /\ eff_call.op # "init"
    /\ eff_pre' = eff
    /\ eff_call' = NoEffCall
    /\ eff_ret' = NoEffRet
    /\ UNCHANGED <<eff, card_vars, deck_vars, player_side, stack_vars>>

\* Draw stacking: plays of DRAW_TWO / WILD_DRAW_FOUR in sequence are combined
\* into eff, the accumulator, which is then applied once and executed.
\* stack_phase is "fresh" before the first combine, "combining" after one,
\* "applied" after set_applied, "drawn" after the first execute_draw that
\* follows it and "drained" after every later one.
StackStep(call, r, sum, phase) ==
    /\ eff_pre' = eff
    /\ eff_call' = call
    /\ eff' = r.eff
    /\ eff_ret' = [raised |-> r.raised, error |-> r.error, value |-> r.value]
    /\ stack_sum' = sum
    /\ stack_phase' = phase
    /\ UNCHANGED <<card_vars, deck_vars, player_side>>

\* The effects stacked: PENDING effects of draw plays, with any draw count up
\* to MaxCount, any color change, reverse and stackable flag, and no skip.
StackOthers ==
    {other \in EffectObjects : other.state = "PENDING" /\ other.skip_count = 0}

\* self.combine(other) with a PENDING other.
StackCombine ==
    /\ stack_phase \in {"fresh", "combining"}
    /\ \E other \in StackOthers :
        /\ eff.draw_count + other.draw_count <= MaxCount
        /\ eff.skip_count + other.skip_count <= MaxCount
        /\ StackStep([NoEffCall EXCEPT !.op = "combine", !.other = other],
                     combine(eff, other), stack_sum + other.draw_count, "combining")

\* execute_draw called before set_applied.
StackExecuteEarly ==
    /\ stack_phase \in {"fresh", "combining"}
    /\ StackStep([NoEffCall EXCEPT !.op = "execute_draw"], execute_draw(eff),
                 stack_sum, stack_phase)

\* The one set_applied, after at least one combine.
StackSetApplied ==
    /\ stack_phase = "combining"
    /\ StackStep([NoEffCall EXCEPT !.op = "set_applied"],
                 Returned(set_applied(eff), 0), stack_sum, "applied")

\* execute_draw called after set_applied.
StackExecuteDraw ==
    /\ stack_phase \in {"applied", "drawn", "drained"}
    /\ StackStep([NoEffCall EXCEPT !.op = "execute_draw"], execute_draw(eff),
                 stack_sum,
                 IF stack_phase = "applied" THEN "drawn" ELSE "drained")

NextStack ==
    \/ StackCombine
    \/ StackExecuteEarly
    \/ StackSetApplied
    \/ StackExecuteDraw

NextEffect ==
    \/ EffReturn
    \/ SetPending
    \/ SetApplied
    \/ SetResolved
    \/ ResetState
    \/ ClearEffects
    \/ SetColorChange
    \/ SetDrawCount
    \/ SetSkipCount
    \/ SetReverseDirection
    \/ SetStackable
    \/ Combine
    \/ ExecuteDraw
    \/ ExecuteSkip

----------------------------------------------------------------------------
(* Deck                                                                    *)

\* Longest list handed to add_cards / add_cards_to_top.
MaxList == 2

\* random.shuffle on a list of at most MaxPermute cards may leave any order;
\* on a longer list the orders modelled are the cuts of the list at
\* 0..MaxCut cards.
MaxPermute == 5

MaxCut == 1

\* The cards the modelled decks are built from: a number card, an action card
\* and a wild card.  Cards are values, so a deck may hold equal cards.
DeckPool ==
    {[color |-> "RED", label |-> "FIVE"],
     [color |-> "BLUE", label |-> "SKIP"],
     [color |-> "WILD", label |-> "WILD_DRAW_FOUR"]}

\* The lists of at most n cards of the pool.
CardLists(n) == UNION {[1..k -> DeckPool] : k \in 0..n}

\* What a Deck method hands back: None, a list of cards, or a ValueError.
ReturnedNone == [kind |-> "None", cards |-> <<>>]
ReturnedList(cards) == [kind |-> "list", cards |-> cards]
RaisedValueError == [kind |-> "ValueError", cards |-> <<>>]

is_empty(d) == Len(d) = 0

\* [self._cards.popleft() for _ in range(count)]: the deck and the list after
\* `count` more pops.
RECURSIVE popleft_loop(_, _, _)

popleft_loop(d, drawn, count) ==
    IF count <= 0
    THEN [deck |-> d, ret |-> ReturnedList(drawn)]
    ELSE popleft_loop(Tail(d), Append(drawn, Head(d)), count - 1)

\* draw that pops before it checks the count against the size.
draw_popping_first(d, count) ==
    IF is_empty(d) THEN [deck |-> d, ret |-> ReturnedNone]
    ELSE IF count < 0 THEN [deck |-> d, ret |-> RaisedValueError]
    ELSE IF count > Len(d) THEN [deck |-> <<>>, ret |-> RaisedValueError]
    ELSE popleft_loop(d, <<>>, count)

\* Deck.draw(self, count)
draw(d, count) ==
    IF is_empty(d) THEN [deck |-> d, ret |-> ReturnedNone]
    ELSE IF count < 0 THEN [deck |-> d, ret |-> RaisedValueError]
    ELSE IF count > Len(d) THEN [deck |-> d, ret |-> RaisedValueError]
    ELSE popleft_loop(d, <<>>, count)

\* Deck.peek(self, count)
peek(d, count) ==
    IF count < 0 THEN [deck |-> d, ret |-> RaisedValueError]
    ELSE IF count > Len(d) THEN [deck |-> d, ret |-> RaisedValueError]
    ELSE [deck |-> d, ret |-> ReturnedList(SubSeq(d, 1, count))]

\* Deck.add_card(self, card): deque.append
add_card(d, card) == [deck |-> Append(d, card), ret |-> ReturnedNone]

\* Deck.add_cards(self, cards): deque.extend
add_cards(d, cards) == [deck |-> d \o cards, ret |-> ReturnedNone]

\* Deck.add_to_top(self, card): deque.appendleft
add_to_top(d, card) == [deck |-> <<card>> \o d, ret |-> ReturnedNone]

\* reversed(cards)
RECURSIVE reversed(_)

reversed(cards) ==
    IF cards = <<>> THEN <<>> ELSE Append(reversed(Tail(cards)), Head(cards))

\* for card in cards: self._cards.appendleft(card)
RECURSIVE appendleft_loop(_, _)

appendleft_loop(d, cards) ==
    IF cards = <<>> THEN d
    ELSE appendleft_loop(<<Head(cards)>> \o d, Tail(cards))

\* add_cards_to_top pushing the cards in listed order, without reversed().
add_cards_to_top_unreversed(d, cards) ==
    [deck |-> appendleft_loop(d, cards), ret |-> ReturnedNone]

\* Deck.add_cards_to_top(self, cards)
add_cards_to_top(d, cards) ==
    [deck |-> appendleft_loop(d, reversed(cards)), ret |-> ReturnedNone]

\* Deck.clear(self)
clear(d) == [deck |-> <<>>, ret |-> ReturnedNone]

\* Deck._COLORS, Deck._ACTIONS, Deck._WILDS, in list order, and the labels
\* CardLabel(number) of Deck._NUMBERS.
DECK_COLORS == <<"RED", "BLUE", "GREEN", "YELLOW">>
DECK_ACTIONS == <<"SKIP", "REVERSE", "DRAW_TWO">>
DECK_WILDS == <<"WILD", "WILD_DRAW_FOUR">>
DECK_NUMBERS ==
    <<"ZERO", "ONE", "TWO", "THREE", "FOUR", "FIVE", "SIX", "SEVEN", "EIGHT", "NINE">>

\* CardFactory.create_number_card / create_action_card / create_wild_card, for
\* the arguments the deck passes (all accepted).
create_number_card(color, number) == [color |-> color, label |-> DECK_NUMBERS[number + 1]]
create_action_card(color, action) == [color |-> color, label |-> action]
create_wild_card(wild_type) == [color |-> "WILD", label |-> wild_type]

\* The concatenation of a sequence of lists.
RECURSIVE Concat(_)

Concat(lists) ==
    IF lists = <<>> THEN <<>> ELSE Head(lists) \o Concat(Tail(lists))

\* _initialize_standard_deck with two ZERO cards per color.
initialize_standard_deck_two_zeros ==
    LET numbers(color) ==
            Concat([n \in 1..10 |->
                       <<create_number_card(color, n - 1),
                         create_number_card(color, n - 1)>>])
        actions(color) ==
            Concat([a \in 1..Len(DECK_ACTIONS) |->
                       <<create_action_card(color, DECK_ACTIONS[a]),
                         create_action_card(color, DECK_ACTIONS[a])>>])
        wilds(wild_type) == [i \in 1..4 |-> create_wild_card(wild_type)]
    IN  Concat([c \in 1..Len(DECK_COLORS) |-> numbers(DECK_COLORS[c])])
        \o Concat([c \in 1..Len(DECK_COLORS) |-> actions(DECK_COLORS[c])])
        \o Concat([w \in 1..Len(DECK_WILDS) |-> wilds(DECK_WILDS[w])])

\* Deck._initialize_standard_deck: cards_to_add, which extends the cleared
\* deque.
initialize_standard_deck ==
    LET numbers(color) ==
            <<create_number_card(color, 0)>>
            \o Concat([n \in 1..9 |->
                          <<create_number_card(color, n),
                            create_number_card(color, n)>>])
        actions(color) ==
            Concat([a \in 1..Len(DECK_ACTIONS) |->
                       <<create_action_card(color, DECK_ACTIONS[a]),
                         create_action_card(color, DECK_ACTIONS[a])>>])
        wilds(wild_type) == [i \in 1..4 |-> create_wild_card(wild_type)]
    IN  Concat([c \in 1..Len(DECK_COLORS) |-> numbers(DECK_COLORS[c])])
        \o Concat([c \in 1..Len(DECK_COLORS) |-> actions(DECK_COLORS[c])])
        \o Concat([w \in 1..Len(DECK_WILDS) |-> wilds(DECK_WILDS[w])])

\* math.ceil(1.5 * math.log2(deck_size)) for deck_size >= 1: the least k with
\* k >= 1.5 * log2(n), that is with 4^k >= n^3.
RECURSIVE least_passes(_, _)

least_passes(n, k) == IF 4^k >= n^3 THEN k ELSE least_passes(n, k + 1)

num_shuffles(deck_size) == least_passes(deck_size, 0)

\* The list cut at k cards: the first k go under the rest.
Cut(l, k) == SubSeq(l, k + 1, Len(l)) \o SubSeq(l, 1, k)

\* random.shuffle drawing each position from the whole list (with
\* replacement).
random_shuffle_resampling(l) == [1..Len(l) -> {l[i] : i \in 1..Len(l)}]

\* random.shuffle(cards_list): the orders it may leave.
random_shuffle(l) ==
    IF Len(l) <= MaxPermute
    THEN {[i \in 1..Len(l) |-> l[p[i]]] : p \in Permutations(1..Len(l))}
    ELSE {Cut(l, k) : k \in 0..MaxCut}

\* for i in range(num_shuffles): random.shuffle(cards_list), from any of the
\* orders in `lists`.  A pass that adds no new order ends the computation:
\* later passes add none either.
RECURSIVE shuffle_passes(_, _)

shuffle_passes(lists, passes) ==
    IF passes <= 0 THEN lists
    ELSE LET after == UNION {random_shuffle(l) : l \in lists}
         IN  IF after = lists THEN lists ELSE shuffle_passes(after, passes - 1)

\* Deck.shuffle(self): the results it may have.  math.log2(0) raises
\* ValueError before self._cards is assigned.
shuffle(d) ==
    IF Len(d) = 0
    THEN {[deck |-> d, ret |-> RaisedValueError]}
    ELSE {[deck |-> l, ret |-> ReturnedNone] :
             l \in shuffle_passes({d}, num_shuffles(Len(d)))}

\* Deck.__init__(self, initialize): the results it may have; a ValueError
\* leaves no Deck object.
deck_init(initialize) ==
    shuffle(IF initialize THEN initialize_standard_deck ELSE <<>>)

\* Single draws until the deck is empty: the cards in the order drawn.
RECURSIVE draw_until_empty(_)

draw_until_empty(d) ==
    IF is_empty(d) THEN <<>>
    ELSE LET r == draw(d, 1)
         IN  r.ret.cards \o draw_until_empty(r.deck)

\* The arguments a call did not take keep these values.
NoDeckCall == [op |-> "init", count |-> 0, cards |-> <<>>, initialize |-> FALSE]

\* The previous call has been returned from.
DeckIdle == deck_call.op = "init"

\* One Deck method call: r is its result.
DeckStep(call, r) ==
    /\ deck_pre' = deck
    /\ deck_call' = call
    /\ deck' = r.deck
    /\ deck_ret' = r.ret
    /\ UNCHANGED <<card_vars, eff_vars, player_side, stack_vars>>

Draw ==
    /\ DeckIdle
    /\ \E count \in -1..(MaxDeck + 1) :
        DeckStep([NoDeckCall EXCEPT !.op = "draw", !.count = count],
                 draw(deck, count))

Peek ==
    /\ DeckIdle
    /\ \E count \in -1..(MaxDeck + 1) :
        DeckStep([NoDeckCall EXCEPT !.op = "peek", !.count = count],
                 peek(deck, count))

AddCard ==
    /\ DeckIdle
    /\ \E card \in DeckPool :
        /\ Len(deck) < MaxDeck
        /\ DeckStep([NoDeckCall EXCEPT !.op = "add_card", !.cards = <<card>>],
                    add_card(deck, card))

AddCards ==
    /\ DeckIdle
    /\ \E cards \in CardLists(MaxList) :
        /\ Len(deck) + Len(cards) <= MaxDeck
        /\ DeckStep([NoDeckCall EXCEPT !.op = "add_cards", !.cards = cards],
                    add_cards(deck, cards))

AddToTop ==
    /\ DeckIdle
    /\ \E card \in DeckPool :
        /\ Len(deck) < MaxDeck
        /\ DeckStep([NoDeckCall EXCEPT !.op = "add_to_top", !.cards = <<card>>],
                    add_to_top(deck, card))

AddCardsToTop ==
    /\ DeckIdle
    /\ \E cards \in CardLists(MaxList) :
        /\ Len(deck) + Len(cards) <= MaxDeck
        /\ DeckStep([NoDeckCall EXCEPT !.op = "add_cards_to_top", !.cards = cards],
                    add_cards_to_top(deck, cards))

Clear ==
    /\ DeckIdle
    /\ DeckStep([NoDeckCall EXCEPT !.op = "clear"], clear(deck))

Shuffle ==
    /\ DeckIdle
    /\ \E r \in shuffle(deck) :
        DeckStep([NoDeckCall EXCEPT !.op = "shuffle"], r)

\* Deck(initialize=False).  When the constructor raises there is no new
\* object and the deck at hand stays.
NewEmptyDeck ==
    /\ DeckIdle
    /\ \E r \in deck_init(FALSE) :
        DeckStep([NoDeckCall EXCEPT !.op = "__init__", !.initialize = FALSE],
                 IF r.ret.kind = "ValueError" THEN [r EXCEPT !.deck = deck] ELSE r)

\* The caller takes the result and goes on: the record of the call is dropped,
\* the deck stays as the call left it.
DeckReturn ==
    /\ deck_call.op # "init"
    /\ deck_pre' = deck
    /\ deck_call' = NoDeckCall
    /\ deck_ret' = ReturnedNone
    /\ UNCHANGED <<deck, card_vars, eff_vars, player_side, stack_vars>>

NextDeck ==
    \/ DeckReturn
    \/ Draw
    \/ Peek
    \/ AddCard
    \/ AddCards
    \/ AddToTop
    \/ AddCardsToTop
    \/ Clear
    \/ Shuffle
    \/ NewEmptyDeck

----------------------------------------------------------------------------
(* Player                                                                  *)

\* Largest hand of a player called on its own.
MaxHand == 3

\* The Player objects of a match.
Players == {"p1", "p2"}

\* Python's None where a Card is expected.
NoCard == [color |-> None, label |-> None]

\* Player.__init__
NewPlayer == [hand |-> <<>>, has_said_uno |-> FALSE, score |-> 0]

\* PlayerAction.__init__
PlayerAction(card, new_color, draw_card, say_uno) ==
    [card |-> card, new_color |-> new_color, draw_card |-> draw_card,
     say_uno |-> say_uno]

\* No PlayerAction (the call raised, or returns None).
NoAction == PlayerAction(NoCard, None, FALSE, FALSE)

\* PlayerAction.is_valid(self)
is_valid(action) ==
    IF action.draw_card
    THEN action.card = NoCard /\ action.new_color = None
    ELSE IF action.card # NoCard THEN TRUE
    ELSE FALSE

\* The key of Player._sort_hand: (card.color.value, card.label.value), compared
\* as tuples.
sort_key_le(a, b) ==
    \/ ColorValue[a.color] < ColorValue[b.color]
    \/ /\ ColorValue[a.color] = ColorValue[b.color]
       /\ LabelValue[a.label] <= LabelValue[b.label]

\* list.sort(key=...), a stable sort: each card in turn goes behind the cards
\* already placed whose key is not greater.
RECURSIVE insert_by_key(_, _)

insert_by_key(sorted, card) ==
    IF sorted = <<>> THEN <<card>>
    ELSE IF sort_key_le(Head(sorted), card)
         THEN <<Head(sorted)>> \o insert_by_key(Tail(sorted), card)
         ELSE <<card>> \o sorted

\* _sort_hand that leaves the hand in the order the cards arrived.
sort_hand_keeping_order(hand) == hand

RECURSIVE sort_hand(_)

sort_hand(hand) ==
    IF hand = <<>> THEN <<>>
    ELSE insert_by_key(sort_hand(SubSeq(hand, 1, Len(hand) - 1)), hand[Len(hand)])

\* `card in self.hand`, by Card.__eq__ (color and label).
card_in_hand(card, hand) == \E i \in 1..Len(hand) : hand[i] = card

\* list.remove(card): the first equal element goes (card is in the list).
RECURSIVE list_remove(_, _)

list_remove(l, card) ==
    IF l = <<>> THEN <<>>
    ELSE IF Head(l) = card THEN Tail(l)
    ELSE <<Head(l)>> \o list_remove(Tail(l), card)

\* The cards the modelled hands are dealt from: the pool of the decks and a
\* second card of one of its colors.
HandPool == DeckPool \cup {[color |-> "RED", label |-> "TWO"]}

\* The lists of at most n cards a player is given.
HandLists(n) == UNION {[1..k -> HandPool] : k \in 0..n}

\* The result of a Player method: the object afterwards, whether the method
\* raised, and the PlayerAction returned.
PlayerReturned(pl, action) == [player |-> pl, raised |-> FALSE, action |-> action]
PlayerRaised(pl) == [player |-> pl, raised |-> TRUE, action |-> NoAction]

\* add_card_to_hand that leaves has_said_uno alone.
add_card_to_hand_keeping_uno(pl, card) ==
    PlayerReturned([pl EXCEPT !.hand = sort_hand(Append(pl.hand, card))], NoAction)

\* Player.add_card_to_hand(self, card)
add_card_to_hand(pl, card) ==
    PlayerReturned([pl EXCEPT !.hand = sort_hand(Append(pl.hand, card)),
                              !.has_said_uno = FALSE], NoAction)

\* add_cards_to_hand that takes each distinct card once.
add_cards_to_hand_once_each(pl, cards) ==
    LET firsts == SelectSeq([i \in 1..Len(cards) |-> i],
                            LAMBDA i : \A j \in 1..(i - 1) : cards[j] # cards[i])
    IN  PlayerReturned(
            [pl EXCEPT !.hand = sort_hand(pl.hand \o
                                          [k \in 1..Len(firsts) |-> cards[firsts[k]]]),
                       !.has_said_uno = FALSE], NoAction)

\* Player.add_cards_to_hand(self, cards)
add_cards_to_hand(pl, cards) ==
    PlayerReturned([pl EXCEPT !.hand = sort_hand(pl.hand \o cards),
                              !.has_said_uno = FALSE], NoAction)

\* play_card that returns the action and leaves the card in the hand.
play_card_keeping_hand(pl, card, new_color) ==
    IF ~card_in_hand(card, pl.hand)
    THEN PlayerRaised(pl)
    ELSE PlayerReturned(pl, PlayerAction(card, new_color, FALSE, FALSE))

\* play_card that removes every card equal to the one played.
play_card_removing_all(pl, card, new_color) ==
    IF ~card_in_hand(card, pl.hand)
    THEN PlayerRaised(pl)
    ELSE PlayerReturned([pl EXCEPT !.hand = SelectSeq(pl.hand, LAMBDA c : c # card)],
                        PlayerAction(card, new_color, FALSE, FALSE))

\* Player.play_card(self, card, new_color).  The action is also kept in
\* self._last_action, an attribute nothing reads; it is not part of the
\* player record.
play_card(pl, card, new_color) ==
    IF ~card_in_hand(card, pl.hand)
    THEN PlayerRaised(pl)
    ELSE PlayerReturned([pl EXCEPT !.hand = list_remove(pl.hand, card)],
                        PlayerAction(card, new_color, FALSE, FALSE))

\* Player.say_uno(self)
say_uno(pl) ==
    PlayerReturned(IF Len(pl.hand) = 1 THEN [pl EXCEPT !.has_said_uno = TRUE] ELSE pl,
                   NoAction)

\* Player.has_uno(self)
has_uno(pl) == Len(pl.hand) = 1

\* The arguments a call did not take keep these values.
NoPlayerCall == [op |-> "init", player |-> "p1", cards |-> <<>>, color |-> None]

\* Before any call there is no result.
NoPlayerRet == [raised |-> FALSE, action |-> NoAction]

\* The previous call has been returned from.
PlayerIdle == player_call.op = "init"

\* One Player method call on player p: r is its result.
PlayerStep(call, r) ==
    /\ player_pre' = players[call.player]
    /\ player_call' = call
    /\ players' = [players EXCEPT ![call.player] = r.player]
    /\ player_ret' = [raised |-> r.raised, action |-> r.action]
    /\ UNCHANGED <<card_vars, eff_vars, deck_vars, game_vars, act_vars, bot_vars, stack_vars>>

AddCardToHand ==
    /\ PlayerIdle
    /\ \E p \in Players, card \in HandPool :
        /\ Len(players[p].hand) < MaxHand
        /\ PlayerStep([NoPlayerCall EXCEPT !.op = "add_card_to_hand", !.player = p,
                                           !.cards = <<card>>],
                      add_card_to_hand(players[p], card))

AddCardsToHand ==
    /\ PlayerIdle
    /\ \E p \in Players, cards \in HandLists(MaxList) :
        /\ Len(players[p].hand) + Len(cards) <= MaxHand
        /\ PlayerStep([NoPlayerCall EXCEPT !.op = "add_cards_to_hand", !.player = p,
                                           !.cards = cards],
                      add_cards_to_hand(players[p], cards))

PlayCard ==
    /\ PlayerIdle
    /\ \E p \in Players, card \in HandPool, new_color \in OptColor :
        PlayerStep([NoPlayerCall EXCEPT !.op = "play_card", !.player = p,
                                        !.cards = <<card>>, !.color = new_color],
                   play_card(players[p], card, new_color))

SayUno ==
    /\ PlayerIdle
    /\ \E p \in Players :
        PlayerStep([NoPlayerCall EXCEPT !.op = "say_uno", !.player = p],
                   say_uno(players[p]))

\* The caller takes the result and goes on: the record of the call is dropped,
\* the players stay as the call left them.
PlayerReturn ==
    /\ player_call.op # "init"
    /\ player_pre' = NewPlayer
    /\ player_call' = NoPlayerCall
    /\ player_ret' = NoPlayerRet
    /\ UNCHANGED <<players, card_vars, eff_vars, deck_vars, game_vars, act_vars,
                   bot_vars, stack_vars>>

NextPlayer ==
    \/ PlayerReturn
    \/ AddCardToHand
    \/ AddCardsToHand
    \/ PlayCard
    \/ SayUno

----------------------------------------------------------------------------
(* PlayerAction.is_valid                                                   *)

\* The PlayerAction objects is_valid is asked about.
ActInputs ==
    [op : {"input"}, card : Cards \cup {NoCard}, new_color : OptColor,
     draw_card : BOOLEAN, say_uno : BOOLEAN]

IsValidCall ==
    /\ act_call.op = "input"
    /\ act_call' = [act_call EXCEPT !.op = "is_valid"]
    /\ act_ret' = is_valid(PlayerAction(act_call.card, act_call.new_color,
                                        act_call.draw_card, act_call.say_uno))
    /\ UNCHANGED <<card_vars, eff_vars, deck_vars, player_vars, game_vars, bot_vars, stack_vars>>

NextAction == IsValidCall

----------------------------------------------------------------------------
(* The bots                                                                *)

\* The Player subclasses.
Bots == {"RandomBot", "WildFirstBot", "WildLastBot"}

\* The draw action a bot returns.
DrawAction == PlayerAction(NoCard, None, TRUE, FALSE)

\* valid_selections taking every card of the hand, playable or not.
valid_selections_unchecked(hand, top_card, current_color) ==
    [i \in 1..Len(hand) |-> i]

\* valid_selections: the indices, in hand order, of the cards that
\* can_play_on(self._top_card, self._current_color).
valid_selections(hand, top_card, current_color) ==
    SelectSeq([i \in 1..Len(hand) |-> i],
              LAMBDA i : can_play_on(hand[i], top_card, current_color))

\* The elements of a list.
Elements(l) == {l[i] : i \in 1..Len(l)}

\* RandomBot.choose_color: random.choice of the four main colors.
random_bot_choose_color == {"RED", "BLUE", "GREEN", "YELLOW"}

\* WildFirstBot.choose_color / WildLastBot.choose_color: color_counts over the
\* non-wild cards of the hand, then max(color_counts, key=color_counts.get),
\* the first of the keys RED, BLUE, GREEN, YELLOW that has the largest count.
counting_choose_color(hand) ==
    LET color_counts ==
            [k \in 1..Len(DECK_COLORS) |->
                Cardinality({i \in 1..Len(hand) :
                                ~is_wild(hand[i]) /\ hand[i].color = DECK_COLORS[k]})]
        first_max ==
            CHOOSE k \in 1..Len(DECK_COLORS) :
                /\ \A j \in 1..Len(DECK_COLORS) : color_counts[j] <= color_counts[k]
                /\ \A j \in 1..(k - 1) : color_counts[j] < color_counts[k]
    IN  DECK_COLORS[first_max]

\* RandomBot.choose_action: the results it may have.  The loop draws
\* selections until one is len(hand) (draw) or a playable card.
random_bot_choose_action(pl, top_card, current_color) ==
    {PlayerReturned(pl, DrawAction)}
    \cup UNION {
        IF can_play_on(pl.hand[selection], top_card, current_color)
        THEN {play_card(pl, pl.hand[selection], new_color) :
                 new_color \in (IF is_wild(pl.hand[selection])
                                THEN random_bot_choose_color ELSE {None})}
        ELSE {} : selection \in 1..Len(pl.hand)}

\* WildFirstBot.choose_action: the results it may have.
wild_first_bot_choose_action(pl, top_card, current_color) ==
    LET valid == valid_selections(pl.hand, top_card, current_color)
        wilds == SelectSeq(valid, LAMBDA i : is_wild(pl.hand[i]))
    IN  IF valid # <<>>
        THEN IF wilds # <<>>
             THEN LET card == pl.hand[wilds[1]]
                      new_color == IF is_wild(card)
                                   THEN counting_choose_color(pl.hand) ELSE None
                  IN  {play_card(pl, card, new_color)}
             ELSE {play_card(pl, pl.hand[i], None) : i \in Elements(valid)}
        ELSE {PlayerReturned(pl, DrawAction)}

\* WildLastBot.choose_action: the results it may have.
wild_last_bot_choose_action(pl, top_card, current_color) ==
    LET valid == valid_selections(pl.hand, top_card, current_color)
        non_wilds == SelectSeq(valid, LAMBDA i : ~is_wild(pl.hand[i]))
        pick(i) ==
            play_card(pl, pl.hand[i],
                      IF is_wild(pl.hand[i])
                      THEN counting_choose_color(pl.hand) ELSE None)
    IN  IF valid # <<>> /\ has_uno(pl)
        THEN {pick(valid[1])}
        ELSE IF valid # <<>>
        THEN IF non_wilds # <<>>
             THEN {play_card(pl, pl.hand[i], None) : i \in Elements(non_wilds)}
             ELSE IF Len(valid) > 1
             THEN {pick(i) : i \in Elements(valid)}
             ELSE {PlayerReturned(pl, DrawAction)}
        ELSE {PlayerReturned(pl, DrawAction)}

\* choose_action of the bot's class.
choose_action(bot, pl, top_card, current_color) ==
    CASE bot = "RandomBot" -> random_bot_choose_action(pl, top_card, current_color)
      [] bot = "WildFirstBot" -> wild_first_bot_choose_action(pl, top_card, current_color)
      [] bot = "WildLastBot" -> wild_last_bot_choose_action(pl, top_card, current_color)

\* choose_color of the bot's class: the colors it may return.
choose_color(bot, pl) ==
    IF bot = "RandomBot" THEN random_bot_choose_color
    ELSE {counting_choose_color(pl.hand)}

\* The hands a bot can hold: add_card_to_hand and add_cards_to_hand keep the
\* hand sorted.
BotHands == {sort_hand(l) : l \in CardLists(MaxHand)}

\* A bot about to decide: its class, its hand, and the top card and active
\* color update_game_state gave it.
BotInputs ==
    [op : {"input"}, bot : Bots,
     player : [hand : BotHands, has_said_uno : {FALSE}, score : {0}],
     top_card : Cards, current_color : OptColor]

\* Before any call there is no result.
NoBotRet == [raised |-> FALSE, action |-> NoAction, color |-> None, player |-> NewPlayer]

ChooseAction ==
    /\ bot_call.op = "input"
    /\ \E r \in choose_action(bot_call.bot, bot_call.player, bot_call.top_card,
                              bot_call.current_color) :
        /\ bot_call' = [bot_call EXCEPT !.op = "choose_action"]
        /\ bot_ret' = [NoBotRet EXCEPT !.raised = r.raised, !.action = r.action,
                                       !.player = r.player]
    /\ UNCHANGED <<card_vars, eff_vars, deck_vars, player_vars, game_vars, act_vars, stack_vars>>

ChooseColor ==
    /\ bot_call.op = "input"
    /\ \E color \in choose_color(bot_call.bot, bot_call.player) :
        /\ bot_call' = [bot_call EXCEPT !.op = "choose_color"]
        /\ bot_ret' = [NoBotRet EXCEPT !.color = color, !.player = bot_call.player]
    /\ UNCHANGED <<card_vars, eff_vars, deck_vars, player_vars, game_vars, act_vars, stack_vars>>

NextBot == ChooseAction \/ ChooseColor

----------------------------------------------------------------------------
(* A match: the deck, the hands and the discard pile                       *)

\* Most operations of a match.
MaxSteps == 3

\* Most cards asked for in one draw of a match.
MaxDraw == 2

\* cards = deck.draw(count); player.add_cards_to_hand(cards).  A draw that
\* raises ends the step; the None of an empty deck makes hand.extend raise
\* TypeError before anything is written.
DrawIntoHand ==
    /\ steps < MaxSteps
    /\ \E p \in Players, count \in 1..MaxDraw :
        LET r == draw(deck, count)
            call == [NoPlayerCall EXCEPT !.op = "add_cards_to_hand", !.player = p,
                                         !.cards = r.ret.cards]
            a == IF r.ret.kind = "list"
                 THEN add_cards_to_hand(players[p], r.ret.cards)
                 ELSE PlayerRaised(players[p])
        IN  /\ deck_pre' = deck
            /\ deck_call' = [NoDeckCall EXCEPT !.op = "draw", !.count = count]
            /\ deck' = r.deck
            /\ deck_ret' = r.ret
            /\ IF r.ret.kind = "ValueError"
               THEN UNCHANGED player_vars
               ELSE /\ player_pre' = players[p]
                    /\ player_call' = call
                    /\ players' = [players EXCEPT ![p] = a.player]
                    /\ player_ret' = [raised |-> a.raised, action |-> a.action]
    /\ steps' = steps + 1
    /\ UNCHANGED <<discard, card_vars, eff_vars, act_vars, bot_vars, stack_vars>>

\* action = player.play_card(card, new_color); the card played goes on the
\* discard pile.
PlayToDiscard ==
    /\ steps < MaxSteps
    /\ \E p \in Players :
        \E card \in Elements(players[p].hand) :
            \E new_color \in (IF is_wild(card) THEN ConcreteColors ELSE {None}) :
                LET r == play_card(players[p], card, new_color)
                IN  /\ player_pre' = players[p]
                    /\ player_call' = [NoPlayerCall EXCEPT !.op = "play_card",
                                           !.player = p, !.cards = <<card>>,
                                           !.color = new_color]
                    /\ players' = [players EXCEPT ![p] = r.player]
                    /\ player_ret' = [raised |-> r.raised, action |-> r.action]
                    /\ discard' = IF r.raised THEN discard
                                  ELSE Append(discard, r.action.card)
    /\ steps' = steps + 1
    /\ UNCHANGED <<deck_vars, card_vars, eff_vars, act_vars, bot_vars, stack_vars>>

\* Recycle: the discard pile, all of it or all but its top card, goes back
\* under the deck with add_cards.
Recycle ==
    /\ steps < MaxSteps
    /\ Len(discard) > 0
    /\ \E keep \in 0..1 :
        LET back == SubSeq(discard, 1, Len(discard) - keep)
            r == add_cards(deck, back)
        IN  /\ deck_pre' = deck
            /\ deck_call' = [NoDeckCall EXCEPT !.op = "add_cards", !.cards = back]
            /\ deck' = r.deck
            /\ deck_ret' = r.ret
            /\ discard' = SubSeq(discard, Len(discard) - keep + 1, Len(discard))
    /\ steps' = steps + 1
    /\ UNCHANGED <<player_vars, card_vars, eff_vars, act_vars, bot_vars, stack_vars>>

NextGame == DrawIntoHand \/ PlayToDiscard \/ Recycle

----------------------------------------------------------------------------
(* Specifications                                                          *)

\* No Card call made yet; a fresh CardEffect(); the deck of Deck() once
\* clear() has emptied it, which the add operations then fill.
InitCardIdle ==
    /\ card_call = [op |-> "idle",
                    self |-> [color |-> "RED", label |-> "ZERO"],
                    other |-> [color |-> "RED", label |-> "ZERO"],
                    color |-> None]
    /\ card_ret = NoCardRet

InitEffect ==
    /\ eff = NewEffect
    /\ eff_pre = NewEffect
    /\ eff_call = NoEffCall
    /\ eff_ret = NoEffRet
    /\ stack_sum = 0
    /\ stack_phase = "fresh"

InitDeck ==
    /\ deck = <<>>
    /\ deck_pre = <<>>
    /\ deck_call = NoDeckCall
    /\ deck_ret = ReturnedNone

InitPlayers ==
    /\ players = [p \in Players |-> NewPlayer]
    /\ player_pre = NewPlayer
    /\ player_call = NoPlayerCall
    /\ player_ret = NoPlayerRet

\* No match under way, no PlayerAction asked about, no bot asked.
InitGameIdle ==
    /\ discard = <<>>
    /\ steps = 0

InitActIdle ==
    /\ act_call = [op |-> "idle", card |-> NoCard, new_color |-> None,
                   draw_card |-> FALSE, say_uno |-> FALSE]
    /\ act_ret = FALSE

InitBotIdle ==
    /\ bot_call = [op |-> "idle", bot |-> "RandomBot", player |-> NewPlayer,
                   top_card |-> [color |-> "RED", label |-> "ZERO"],
                   current_color |-> None]
    /\ bot_ret = NoBotRet

InitPlayerSide == InitPlayers /\ InitGameIdle /\ InitActIdle /\ InitBotIdle

Init == InitCardIdle /\ InitEffect /\ InitDeck /\ InitPlayerSide

\* is_valid is pure: the action's fields are drawn here.
InitAction ==
    /\ InitCardIdle /\ InitEffect /\ InitDeck
    /\ InitPlayers /\ InitGameIdle /\ InitBotIdle
    /\ act_call \in ActInputs
    /\ act_ret = FALSE

\* A bot's decision depends only on its hand and the game state it was given:
\* they are drawn here.
InitBot ==
    /\ InitCardIdle /\ InitEffect /\ InitDeck
    /\ InitPlayers /\ InitGameIdle /\ InitActIdle
    /\ bot_call \in BotInputs
    /\ bot_ret = NoBotRet

\* A match starts with deck = Deck() and players with empty hands.
InitGame ==
    /\ InitCardIdle /\ InitEffect
    /\ InitPlayers /\ InitGameIdle /\ InitActIdle /\ InitBotIdle
    /\ \E r \in deck_init(TRUE) :
        /\ deck = r.deck
        /\ deck_ret = r.ret
    /\ deck_pre = <<>>
    /\ deck_call = [NoDeckCall EXCEPT !.op = "__init__", !.initialize = TRUE]

\* Card's methods are pure: the receiver, the other card and the color are
\* drawn here and one method is applied to them.
InitCard ==
    /\ card_call \in CardInputs
    /\ card_ret = NoCardRet
    /\ InitEffect
    /\ InitDeck
    /\ InitPlayerSide

Next ==
    \/ NextCard
    \/ NextEffect
    \/ NextDeck
    \/ NextPlayer
    \/ NextAction
    \/ NextBot
    \/ NextGame
    \/ NextStack

Spec == Init /\ [][Next]_vars

SpecCard == InitCard /\ [][NextCard]_vars

SpecEffect == Init /\ [][NextEffect]_vars

SpecStack == Init /\ [][NextStack]_vars

SpecDeck == Init /\ [][NextDeck]_vars

SpecPlayer == Init /\ [][NextPlayer]_vars

SpecAction == InitAction /\ [][NextAction]_vars

SpecBot == InitBot /\ [][NextBot]_vars

SpecGame == InitGame /\ [][NextGame]_vars

----------------------------------------------------------------------------
(* Card legality and effect derivation                                     *)

\* C1: for every candidate, top card and active color in {unset, RED, BLUE,
\* GREEN, YELLOW}, can_play_on answers true exactly when the candidate is
\* wild, or its color equals the active color when one is set and the top
\* card's color when none is, or its label equals the top card's label and the
\* top card is not wild.
C1_CanPlayOnAsClaimed ==
    (card_call.op = "can_play_on" /\ card_call.color \in ConcreteColors \cup {None}) =>
        LET candidate == card_call.self
            top == card_call.other
            active == IF card_call.color # None THEN card_call.color ELSE top.color
        IN  card_ret.bool =
                (\/ is_wild(candidate)
                 \/ candidate.color = active
                 \/ (candidate.label = top.label /\ ~is_wild(top)))

\* C2: playing a wild card with chosen color WILD fails with a ValueError;
\* with any of the four concrete colors it succeeds and the returned effects'
\* color_change is the chosen color.
C2_PlayWildAsClaimed ==
    (card_call.op = "play" /\ is_wild(card_call.self)) =>
        /\ card_call.color = "WILD" => card_ret.raised
        /\ card_call.color \in ConcreteColors =>
              /\ ~card_ret.raised
              /\ card_ret.effects.color_change = card_call.color

----------------------------------------------------------------------------
(* The effect state machine                                                *)

\* C3: reset_state and clear_effects, called in any state, return to the
\* caller and leave the effect as a fresh one: NO_EFFECT, no color change,
\* counts 0, flags false.
C3_ResetCompletesAsClaimed ==
    eff_call.op \in {"reset_state", "clear_effects"} =>
        /\ ~eff_ret.raised
        /\ eff = NewEffect

\* C4: set_pending changes the state only from NO_EFFECT (to PENDING),
\* set_applied only from PENDING (to APPLIED), set_resolved only from APPLIED
\* (to RESOLVED); in any other state each leaves the state and every field
\* as they were.
C4_GuardedTransitions ==
    /\ eff_call.op = "set_pending" =>
          /\ ~eff_ret.raised
          /\ eff = IF eff_pre.state = "NO_EFFECT"
                   THEN [eff_pre EXCEPT !.state = "PENDING"] ELSE eff_pre
    /\ eff_call.op = "set_applied" =>
          /\ ~eff_ret.raised
          /\ eff = IF eff_pre.state = "PENDING"
                   THEN [eff_pre EXCEPT !.state = "APPLIED"] ELSE eff_pre
    /\ eff_call.op = "set_resolved" =>
          /\ ~eff_ret.raised
          /\ eff = IF eff_pre.state = "APPLIED"
                   THEN [eff_pre EXCEPT !.state = "RESOLVED"] ELSE eff_pre

\* set_applied called on a RESOLVED effect that still holds a draw count: the
\* no-op case.
C4_Witness ==
    /\ eff_call.op = "set_applied"
    /\ eff_pre.state = "RESOLVED"
    /\ eff_pre.draw_count > 0
    /\ eff = eff_pre

\* The operations other than clear_effects and reset_state.
NonClearingOps ==
    {"set_pending", "set_applied", "set_resolved", "color_change", "draw_count",
     "skip_count", "reverse_direction", "stackable", "combine", "execute_draw",
     "execute_skip"}

\* C5: an operation other than clear/reset never lowers the state in the
\* order NO_EFFECT < PENDING < APPLIED < RESOLVED and never raises it by more
\* than one, so over any sequence of such operations the state only advances,
\* one state at a time.
C5_MonotoneWithoutClear ==
    eff_call.op \in NonClearingOps =>
        \/ StateValue[eff.state] = StateValue[eff_pre.state]
        \/ StateValue[eff.state] = StateValue[eff_pre.state] + 1

\* combine moved a fresh effect to PENDING.
C5_Witness ==
    /\ eff_call.op = "combine"
    /\ eff_pre.state = "NO_EFFECT"
    /\ eff.state = "PENDING"

\* C6: execute_draw (execute_skip) in state APPLIED with a positive count
\* returns the count and zeroes it, so that the same call made again returns
\* 0; in every other case it returns 0 and leaves the effect as it was.  The
\* state is never changed.
C6_ExecutePaysOnce ==
    /\ eff_call.op = "execute_draw" =>
          /\ ~eff_ret.raised
          /\ eff.state = eff_pre.state
          /\ IF eff_pre.state = "APPLIED" /\ eff_pre.draw_count > 0
             THEN /\ eff_ret.value = eff_pre.draw_count
                  /\ eff = [eff_pre EXCEPT !.draw_count = 0]
                  /\ execute_draw(eff).value = 0
             ELSE /\ eff_ret.value = 0
                  /\ eff = eff_pre
    /\ eff_call.op = "execute_skip" =>
          /\ ~eff_ret.raised
          /\ eff.state = eff_pre.state
          /\ IF eff_pre.state = "APPLIED" /\ eff_pre.skip_count > 0
             THEN /\ eff_ret.value = eff_pre.skip_count
                  /\ eff = [eff_pre EXCEPT !.skip_count = 0]
                  /\ execute_skip(eff).value = 0
             ELSE /\ eff_ret.value = 0
                  /\ eff = eff_pre

\* execute_draw paid out a positive count from an APPLIED effect.
C6_Witness ==
    /\ eff_call.op = "execute_draw"
    /\ eff_pre.state = "APPLIED"
    /\ eff_pre.draw_count > 0
    /\ eff_ret.value = eff_pre.draw_count
    /\ eff.draw_count = 0

\* C7: a.combine(b) leaves a with the two draw counts added, the two skip
\* counts added, b's color change when b has one and a's own otherwise,
\* reverse and stackable each the OR of the two, and a state of at least
\* PENDING whenever b was not NO_EFFECT.
C7_CombineMerges ==
    eff_call.op = "combine" =>
        LET a == eff_pre
            b == eff_call.other
        IN  /\ ~eff_ret.raised
            /\ eff.draw_count = a.draw_count + b.draw_count
            /\ eff.skip_count = a.skip_count + b.skip_count
            /\ eff.color_change =
                  IF b.color_change # None THEN b.color_change ELSE a.color_change
            /\ eff.reverse_direction = (a.reverse_direction \/ b.reverse_direction)
            /\ eff.stackable = (a.stackable \/ b.stackable)
            /\ b.state # "NO_EFFECT" => StateValue[eff.state] >= StateValue["PENDING"]

\* Two effects with positive draw counts and different color changes were
\* combined.
C7_Witness ==
    /\ eff_call.op = "combine"
    /\ eff_pre.draw_count > 0
    /\ eff_call.other.draw_count > 0
    /\ eff_pre.color_change \notin {None, eff_call.other.color_change}
    /\ eff_call.other.color_change # None
    /\ eff_pre.state = "APPLIED"

\* C8: a property setter moves the state from NO_EFFECT to PENDING exactly
\* when it assigns a non-None color_change, a positive draw_count, a positive
\* skip_count or a true reverse_direction; assigning None, 0 or false, the
\* stackable setter and a rejected assignment leave the state unchanged, and
\* no setter changes a state other than NO_EFFECT.
C8_SettersAutoPending ==
    eff_call.op \in {"color_change", "draw_count", "skip_count",
                     "reverse_direction", "stackable"} =>
        LET assigns ==
                \/ eff_call.op = "color_change" /\ eff_call.color \in ConcreteColors
                \/ eff_call.op = "draw_count" /\ eff_call.count > 0
                \/ eff_call.op = "skip_count" /\ eff_call.count > 0
                \/ eff_call.op = "reverse_direction" /\ eff_call.flag
        IN  eff.state =
                IF eff_pre.state = "NO_EFFECT" /\ assigns
                THEN "PENDING" ELSE eff_pre.state

\* Assigning draw_count 0 to a fresh effect left it NO_EFFECT.
C8_Witness ==
    /\ eff_call.op = "draw_count"
    /\ eff_call.count = 0
    /\ eff_pre.state = "NO_EFFECT"
    /\ eff.state = "NO_EFFECT"
    /\ ~eff_ret.raised

----------------------------------------------------------------------------
(* The deck's draw and peek                                                *)

\* C9: for every deck, the empty one included, draw(n) fails with an error
\* when n is negative or exceeds the size, and otherwise removes and returns
\* the first n cards in order; an impossible draw is never answered by a
\* value.
C9_DrawAsClaimed ==
    deck_call.op = "draw" =>
        IF deck_call.count < 0 \/ deck_call.count > Len(deck_pre)
        THEN deck_ret.kind = "ValueError"
        ELSE /\ deck_ret = ReturnedList(SubSeq(deck_pre, 1, deck_call.count))
             /\ deck = SubSeq(deck_pre, deck_call.count + 1, Len(deck_pre))

\* C10: a draw or peek that is rejected, or that asks for a negative count or
\* for more cards than the deck holds, leaves the deck's contents and order as
\* they were.
C10_RejectionKeepsDeck ==
    (/\ deck_call.op \in {"draw", "peek"}
     /\ \/ deck_ret.kind = "ValueError"
        \/ deck_call.count < 0
        \/ deck_call.count > Len(deck_pre)) =>
        deck = deck_pre

\* draw rejected a request for more cards than a non-empty deck holds.
C10_Witness ==
    /\ deck_call.op = "draw"
    /\ deck_ret.kind = "ValueError"
    /\ Len(deck_pre) >= 2
    /\ deck_call.count > Len(deck_pre)

\* How many times a card is in a list.
occurrences(l, card) == Cardinality({i \in 1..Len(l) : l[i] = card})

\* Two lists hold the same cards the same number of times.
same_multiset(a, b) ==
    /\ Len(a) = Len(b)
    /\ \A card \in Elements(a) \cup Elements(b) :
        occurrences(a, card) = occurrences(b, card)

\* For every card, how many times the standard deck holds it as it is built.
standard_counts == [card \in Cards |-> occurrences(initialize_standard_deck, card)]

\* C11: for every deck, the empty one included, and every count, peek leaves
\* the deck unchanged, fails exactly when draw on the same deck with the same
\* count fails, and otherwise returns what draw would return.
C11_PeekLikeDraw ==
    deck_call.op = "peek" =>
        LET d == draw(deck_pre, deck_call.count)
        IN  /\ deck = deck_pre
            /\ (deck_ret.kind = "ValueError") <=> (d.ret.kind = "ValueError")
            /\ d.ret.kind # "ValueError" => deck_ret = d.ret

C13_ShufflePermutes ==
    deck_call.op = "shuffle" =>
        /\ same_multiset(deck, deck_pre)
        /\ same_multiset(draw_until_empty(deck), deck_pre)

\* A shuffle changed the order of a deck that holds a card twice.
C13_Witness ==
    /\ deck_call.op = "shuffle"
    /\ deck_ret.kind = "None"
    /\ Len(deck_pre) >= 3
    /\ deck # deck_pre
    /\ \E i, j \in 1..Len(deck_pre) : i # j /\ deck_pre[i] = deck_pre[j]

\* C14: Deck(initialize=False) succeeds and gives an empty deck, and shuffle
\* completes without error on a deck of any size, 0 and 1 included.
C14_EmptyDeckConstructs ==
    /\ (deck_call.op = "__init__" /\ ~deck_call.initialize) =>
        /\ deck_ret.kind # "ValueError"
        /\ is_empty(deck)
    /\ deck_call.op = "shuffle" => deck_ret.kind # "ValueError"

\* C15: a newly constructed standard deck holds 108 cards: per color one ZERO,
\* two of each of ONE..NINE and of SKIP, REVERSE and DRAW_TWO; four WILD and
\* four WILD_DRAW_FOUR of color WILD; no other card.
C15_StandardComposition ==
    (deck_call.op = "__init__" /\ deck_call.initialize) =>
        /\ deck_ret.kind = "None"
        /\ Len(deck) = 108
        /\ \A card \in Cards :
            occurrences(deck, card) =
                IF card.color = "WILD" THEN 4
                ELSE IF card.label = "ZERO" THEN 1
                ELSE 2
        /\ Elements(deck) \subseteq Cards

\* The deck as its constructor left it, shuffled out of the order it was
\* built in.
C15_Witness ==
    /\ deck_call.op = "__init__"
    /\ deck_call.initialize
    /\ steps = 0
    /\ deck # initialize_standard_deck

\* C16: in every state reached from a fresh standard deck by draws into a
\* hand, plays to the discard pile and recycling of the discard pile, the
\* deck, the hands and the discard pile together hold exactly the cards of the
\* standard deck, each as many times.
C16_CardsConserved ==
    LET everywhere == deck \o players["p1"].hand \o players["p2"].hand \o discard
    IN  /\ Len(everywhere) = Len(initialize_standard_deck)
        /\ \A card \in Cards : occurrences(everywhere, card) = standard_counts[card]

\* Two cards were drawn into a hand, one of them was played and the discard
\* pile went back under the deck.
C16_Witness ==
    /\ deck_call.op = "add_cards"
    /\ Len(deck_call.cards) = 1
    /\ deck[Len(deck)] = deck_call.cards[1]
    /\ discard = <<>>
    /\ \E p \in Players : Len(players[p].hand) = 1

\* C17: play_card of a card not in the hand fails and leaves hand,
\* has_said_uno and score as they were; otherwise one occurrence of the card
\* leaves the hand (its size drops by exactly 1), has_said_uno and score stay,
\* and the action returned names the card and the color and is not a draw.
C17_PlayCardAsClaimed ==
    player_call.op = "play_card" =>
        LET card == player_call.cards[1]
            after == players[player_call.player]
        IN  IF ~card_in_hand(card, player_pre.hand)
            THEN /\ player_ret.raised
                 /\ after = player_pre
            ELSE /\ ~player_ret.raised
                 /\ Len(after.hand) = Len(player_pre.hand) - 1
                 /\ occurrences(after.hand, card)
                        = occurrences(player_pre.hand, card) - 1
                 /\ \A c \in Elements(player_pre.hand) \ {card} :
                        occurrences(after.hand, c) = occurrences(player_pre.hand, c)
                 /\ after.has_said_uno = player_pre.has_said_uno
                 /\ after.score = player_pre.score
                 /\ player_ret.action.card = card
                 /\ player_ret.action.new_color = player_call.color
                 /\ ~player_ret.action.draw_card

\* A card held twice was played.
C17_Witness ==
    /\ player_call.op = "play_card"
    /\ ~player_ret.raised
    /\ occurrences(player_pre.hand, player_call.cards[1]) = 2
    /\ Len(player_pre.hand) = 3

\* C18: every add_card_to_hand and add_cards_to_hand leaves has_said_uno
\* false, say_uno sets it only on a hand of exactly one card, and whenever it
\* is true the hand holds at most one card.
C18_UnoOnlyOnLastCard ==
    /\ \A p \in Players : players[p].has_said_uno => Len(players[p].hand) <= 1
    /\ player_call.op \in {"add_card_to_hand", "add_cards_to_hand"} =>
        ~players[player_call.player].has_said_uno
    /\ player_call.op = "say_uno" =>
        (players[player_call.player].has_said_uno
            <=> (player_pre.has_said_uno \/ Len(player_pre.hand) = 1))

\* A player who had said uno took a card.
C18_Witness ==
    /\ player_call.op = "add_card_to_hand"
    /\ player_pre.has_said_uno
    /\ Len(players[player_call.player].hand) = 2

\* C19: is_valid is true exactly for a pure draw (draw_card, no card, no
\* color) and for a play (a card, no draw_card) that names a color if and only
\* if the card is wild.
C19_IsValidAsClaimed ==
    act_call.op = "is_valid" =>
        (act_ret <=>
            \/ /\ act_call.draw_card
               /\ act_call.card = NoCard
               /\ act_call.new_color = None
            \/ /\ ~act_call.draw_card
               /\ act_call.card # NoCard
               /\ (act_call.new_color # None) <=> is_wild(act_call.card))

\* C20: choose_action of each bot returns a draw action or a play of a card
\* that was in the hand and can be played on the top card under the active
\* color; the play names one of the four colors when the card is wild and no
\* color when it is not; choose_color never returns WILD.
C20_BotsChooseLegally ==
    /\ bot_call.op = "choose_action" =>
        /\ ~bot_ret.raised
        /\ \/ bot_ret.action = DrawAction
           \/ /\ ~bot_ret.action.draw_card
              /\ card_in_hand(bot_ret.action.card, bot_call.player.hand)
              /\ can_play_on(bot_ret.action.card, bot_call.top_card,
                             bot_call.current_color)
              /\ IF is_wild(bot_ret.action.card)
                 THEN bot_ret.action.new_color \in ConcreteColors
                 ELSE bot_ret.action.new_color = None
    /\ bot_call.op = "choose_color" => bot_ret.color \in ConcreteColors

\* WildFirstBot played a wild card from a hand that also held a playable
\* card of another kind.
C20_Witness ==
    /\ bot_call.op = "choose_action"
    /\ bot_call.bot = "WildFirstBot"
    /\ ~bot_ret.action.draw_card
    /\ is_wild(bot_ret.action.card)
    /\ bot_ret.action.new_color = "BLUE"
    /\ \E i \in 1..Len(bot_call.player.hand) :
        /\ ~is_wild(bot_call.player.hand[i])
        /\ can_play_on(bot_call.player.hand[i], bot_call.top_card,
                       bot_call.current_color)

\* C21: WildLastBot.choose_action keeps wild cards back unless the player has
\* UNO: from a hand of more than one card the action returned is never the
\* play of a wild card.
C21_WildLastKeepsWilds ==
    (/\ bot_call.op = "choose_action"
     /\ bot_call.bot = "WildLastBot"
     /\ Len(bot_call.player.hand) > 1) =>
        (bot_ret.action.draw_card \/ ~is_wild(bot_ret.action.card))

\* C26: when choose_action of a bot returns a play, exactly one occurrence of
\* the card played has left the bot's hand (its size is one less, the other
\* cards are as they were); when it returns a draw the bot is unchanged.
C26_DecisionMutatesHand ==
    bot_call.op = "choose_action" =>
        LET before == bot_call.player
            after == bot_ret.player
            card == bot_ret.action.card
        IN  IF bot_ret.action.draw_card
            THEN after = before
            ELSE /\ Len(after.hand) = Len(before.hand) - 1
                 /\ occurrences(after.hand, card) = occurrences(before.hand, card) - 1
                 /\ \A c \in Elements(before.hand) \ {card} :
                        occurrences(after.hand, c) = occurrences(before.hand, c)
                 /\ after.has_said_uno = before.has_said_uno
                 /\ after.score = before.score

\* A bot played a card it held twice, and still holds one of them.
C26_Witness ==
    /\ bot_call.op = "choose_action"
    /\ ~bot_ret.action.draw_card
    /\ occurrences(bot_call.player.hand, bot_ret.action.card) = 2
    /\ occurrences(bot_ret.player.hand, bot_ret.action.card) = 1
    /\ Len(bot_call.player.hand) = 3

\* C24: each player's hand is sorted by (color, label) in every state reached
\* from the empty hand by add_card_to_hand, add_cards_to_hand and play_card
\* calls, whether they succeed or fail.
C24_HandStaysSorted ==
    \A p \in Players :
        \A i, j \in 1..Len(players[p].hand) :
            i < j =>
                \/ ColorValue[players[p].hand[i].color]
                       < ColorValue[players[p].hand[j].color]
                \/ /\ players[p].hand[i].color = players[p].hand[j].color
                   /\ LabelValue[players[p].hand[i].label]
                          <= LabelValue[players[p].hand[j].label]

\* A card was added that belongs between two cards already held, in front
\* of a card of its own color.
C24_Witness ==
    /\ player_call.op = "add_card_to_hand"
    /\ Len(player_pre.hand) = 2
    /\ players[player_call.player].hand[1] = player_call.cards[1]
    /\ players[player_call.player].hand[2].color = player_call.cards[1].color
    /\ players[player_call.player].hand[2].label # player_call.cards[1].label
    /\ players[player_call.player].hand[3].color # player_call.cards[1].color

\* C23: an assignment that is rejected (a negative draw_count or skip_count,
\* color_change = WILD) raises and leaves the state and every field of the
\* effect as they were; in every reachable state draw_count >= 0,
\* skip_count >= 0 and color_change is None or one of the four concrete
\* colors.
C23_RejectedAssignmentKeepsEffect ==
    /\ (\/ eff_call.op \in {"draw_count", "skip_count"} /\ eff_call.count < 0
        \/ eff_call.op = "color_change" /\ eff_call.color = "WILD") =>
            /\ eff_ret.raised
            /\ eff_ret.error = "ValueError"
            /\ eff = eff_pre
    /\ eff.draw_count >= 0
    /\ eff.skip_count >= 0
    /\ eff.color_change \in ConcreteColors \cup {None}

\* A negative skip_count was refused by an effect that held a skip count and
\* a color.
C23_Witness ==
    /\ eff_call.op = "skip_count"
    /\ eff_call.count < 0
    /\ eff_ret.raised
    /\ eff_pre.skip_count > 0
    /\ eff_pre.color_change # None
    /\ eff_pre.state = "PENDING"

\* C25: once an effect is RESOLVED, no setter, combine, set_pending,
\* set_applied, set_resolved, execute_draw or execute_skip changes its state,
\* and execute_draw and execute_skip return 0 and consume nothing, also when
\* a positive draw_count or skip_count was assigned or combined into it since.
C25_ResolvedIsSink ==
    (eff_call.op \in NonClearingOps /\ eff_pre.state = "RESOLVED") =>
        /\ eff.state = "RESOLVED"
        /\ eff_call.op \in {"execute_draw", "execute_skip"} =>
            /\ eff_ret.value = 0
            /\ eff = eff_pre

\* execute_draw returned 0 on a RESOLVED effect that holds a positive
\* draw_count.
C25_Witness ==
    /\ eff_call.op = "execute_draw"
    /\ eff_pre.state = "RESOLVED"
    /\ eff_pre.draw_count > 0
    /\ eff_ret.value = 0
    /\ eff.draw_count = eff_pre.draw_count

\* C22: starting from a fresh effect, after every combine of a PENDING effect
\* the accumulator is PENDING; after the one set_applied the first
\* execute_draw returns the sum of the draw counts combined and every later
\* one returns 0; an execute_draw before set_applied returns 0 and leaves the
\* accumulator as it was.
C22_StackedDrawsExecuteOnce ==
    /\ stack_phase \in {"fresh", "combining"} =>
        /\ eff.draw_count = stack_sum
        /\ stack_phase = "combining" => eff.state = "PENDING"
        /\ eff_call.op = "execute_draw" =>
            /\ eff_ret.value = 0
            /\ eff = eff_pre
    /\ stack_phase = "applied" =>
        /\ eff.state = "APPLIED"
        /\ eff.draw_count = stack_sum
    /\ stack_phase = "drawn" => eff_ret.value = stack_sum
    /\ stack_phase = "drained" => eff_ret.value = 0
    /\ ~eff_ret.raised

\* Two effects with positive draw counts were combined, applied once and
\* executed: the draw returned their sum.
C22_Witness ==
    /\ stack_phase = "drawn"
    /\ eff_ret.value = stack_sum
    /\ stack_sum >= 3
    /\ eff.draw_count = 0

====
